---- MODULE Spec2Model ----
(***************************************************************************)
(* Model of the Cosy runtime value (src/assets/cosy_lib/cosy.cpp): the     *)
(* tagged union, its constructors, into_complex, operator+ and operator<<. *)
(*                                                                         *)
(* A host holds two Cosy objects, lhs and rhs, and invokes one operation   *)
(* on them.  into_complex and operator<< are applied as whole calls;       *)
(* operator+ is executed one activation at a time on an explicit call      *)
(* stack, because one of its branches calls operator+ again.               *)
(***************************************************************************)
EXTENDS Integers, Sequences, FiniteSets, TLC

\* Largest number of nodes (values, counting nested elements) of an operand.
MaxNodes == 5
\* How many times the host calls into_complex on the same receiver.
MaxCalls == 2
\* Number of operator+ activations the machine stack can hold.
StackLimit == 3

(***************************************************************************)
(* Storage.  A cell is one scalar slot; def = FALSE is an indeterminate    *)
(* (never written, or clobbered through the other union member) slot.      *)
(* double cells hold integer-valued doubles: every int converts exactly.   *)
(***************************************************************************)
Indet == [def |-> FALSE, v |-> 0]

Cell(x) == [def |-> TRUE, v |-> x]

\* union CosyValue { int intValue; double complexValue[2]; } before any write
CosyValue == [intValue |-> Indet, complexValue |-> <<Indet, Indet>>]

\* value.intValue = n : overlaps complexValue[0]
WriteInt(value, c) ==
    [intValue |-> c, complexValue |-> <<Indet, value.complexValue[2]>>]

\* value.complexValue[0] = c : overlaps intValue
WriteReal(value, c) ==
    [intValue |-> Indet, complexValue |-> <<c, value.complexValue[2]>>]

\* value.complexValue[1] = c
WriteImag(value, c) ==
    [intValue |-> value.intValue, complexValue |-> <<value.complexValue[1], c>>]

\* static_cast<double>(int), and the int -> double promotion in int + double
IntToDouble(c) == [def |-> c.def, v |-> c.v]

\* double + double
DAdd(x, y) == [def |-> x.def /\ y.def, v |-> x.v + y.v]

\* int + int
IAdd(x, y) == [def |-> x.def /\ y.def, v |-> x.v + y.v]

\* A freshly allocated Cosy object before a constructor body runs.
Cosy == [type |-> "NUMBER", value |-> CosyValue,
         stringValue |-> <<>>, vectorValue |-> <<>>]

\* the default constructor without its value.intValue = 0
CosyDefault_Unset == [Cosy EXCEPT !.type = "NUMBER"]

\* Cosy::Cosy ( )
CosyDefault == [Cosy EXCEPT !.value = WriteInt(CosyValue, Cell(0)), !.type = "NUMBER"]

\* Cosy::Cosy ( std::vector<Cosy> vec )
CosyVector(vec) == [Cosy EXCEPT !.vectorValue = vec, !.type = "VECTOR"]

\* Cosy::Cosy ( int val )
CosyInt(val) == [Cosy EXCEPT !.value = WriteInt(CosyValue, Cell(val)), !.type = "NUMBER"]

\* Cosy::Cosy ( const std::string& str )
CosyString(str) == [Cosy EXCEPT !.stringValue = str, !.type = "STRING"]

\* Cosy::Cosy ( double real, double imag )
CosyComplex(real, imag) ==
    [Cosy EXCEPT !.value = WriteImag(WriteReal(CosyValue, Cell(real)), Cell(imag)),
                 !.type = "COMPLEX"]

(***************************************************************************)
(* Text.  A std::string is a sequence of one-character strings.            *)
(***************************************************************************)
DigitChars == <<"0", "1", "2", "3", "4", "5", "6", "7", "8", "9">>

RECURSIVE Digits(_)
Digits(n) ==
    IF n < 10 THEN <<DigitChars[n + 1]>>
    ELSE Digits(n \div 10) \o <<DigitChars[(n % 10) + 1]>>

\* std::to_string(int), and os << int
to_string(n) == IF n < 0 THEN <<"-">> \o Digits(-n) ELSE Digits(n)

\* os << double for an integer-valued double of magnitude below 10^6
\* (default precision 6: no decimal point, no exponent)
FormatDouble(d) == IF d < 0 THEN <<"-">> \o Digits(-d) ELSE Digits(d)

(***************************************************************************)
(* Cosy::into_complex.  Returns the receiver's state when the call ends    *)
(* and the message of the exception it ended with ("" when it returned;    *)
(* the returned value is then a copy of the receiver).                     *)
(***************************************************************************)
StringToComplexMsg == "Cannot convert string to complex number!"

VectorTooShortMsg == "Cannot convert vector to complex, must have at least two elements!"

\* the NUMBER branch with the imaginary component never written
NumberToComplex_NoImag(self) ==
    LET t1 == [self EXCEPT !.type = "COMPLEX"]
    IN  [t1 EXCEPT !.value = WriteReal(t1.value, IntToDouble(t1.value.intValue))]

\* lines 61-63: the NUMBER branch
NumberToComplex(self) ==
    LET t1 == [self EXCEPT !.type = "COMPLEX"]
        t2 == [t1 EXCEPT !.value = WriteReal(t1.value, IntToDouble(t1.value.intValue))]
    IN  [t2 EXCEPT !.value = WriteImag(t2.value, Cell(0))]

\* the failure raised after the tag has been overwritten
ThrowFrom_Retagged(self, msg) == [this |-> [self EXCEPT !.type = "COMPLEX"], thrown |-> msg]

\* lines 65, 69: throw std::runtime_error(msg) out of the receiver's own checks
ThrowFrom(self, msg) == [this |-> self, thrown |-> msg]

\* the tag assignment left out at line 72
Retag_Missing(self) == self

\* line 72: this->type = COMPLEX
Retag(self) == [self EXCEPT !.type = "COMPLEX"]

\* the imaginary component of the returned copy
ReturnedReal_Imag(e) == e.this.value.complexValue[2]

\* lines 73-74: <element>.into_complex().value.complexValue[0]
ReturnedReal(e) == e.this.value.complexValue[1]

RECURSIVE into_complex(_)
into_complex(self) ==
    IF self.type = "NUMBER" THEN
        [this |-> NumberToComplex(self), thrown |-> ""]
    ELSE IF self.type = "STRING" THEN
        ThrowFrom(self, StringToComplexMsg)
    ELSE IF self.type = "VECTOR" THEN
        IF Len(self.vectorValue) < 2 THEN
            ThrowFrom(self, VectorTooShortMsg)
        ELSE
            LET t1 == Retag(self)
                e0 == into_complex(t1.vectorValue[1])
                t2 == [t1 EXCEPT !.vectorValue[1] = e0.this]
            IN  IF e0.thrown # "" THEN [this |-> t2, thrown |-> e0.thrown]
                ELSE
                LET t3 == [t2 EXCEPT !.value = WriteReal(t2.value, ReturnedReal(e0))]
                    e1 == into_complex(t3.vectorValue[2])
                    t4 == [t3 EXCEPT !.vectorValue[2] = e1.this]
                IN  IF e1.thrown # "" THEN [this |-> t4, thrown |-> e1.thrown]
                    ELSE [this |-> [t4 EXCEPT !.value =
                                      WriteImag(t4.value, ReturnedReal(e1))],
                          thrown |-> ""]
    ELSE
        [this |-> self, thrown |-> ""]

(***************************************************************************)
(* Cosy::operator+, one activation.  The outcome is a return, a throw, or  *)
(* (line 110) a nested call of operator+ whose result is then returned.    *)
(***************************************************************************)
ConcatMsg == "Cannot convert complex/vector to string for concatenation!"

Return(r) == [kind |-> "return", result |-> r, msg |-> "", this |-> r, other |-> r]

Throw(m) == [kind |-> "throw", result |-> CosyDefault, msg |-> m,
             this |-> CosyDefault, other |-> CosyDefault]

Call(t, o) == [kind |-> "call", result |-> CosyDefault, msg |-> "", this |-> t, other |-> o]

\* the operands appended in the wrong order
StrCat_Swapped(left, right) == right \o left

\* std::string operator+
StrCat(left, right) == left \o right

operator_plus(this, other) ==
    LET result == CosyDefault IN
    IF this.type = "STRING" /\ other.type = "STRING" THEN
        Return([result EXCEPT !.stringValue = StrCat(this.stringValue, other.stringValue),
                              !.type = "STRING"])
    ELSE IF this.type = "STRING" \/ other.type = "STRING" THEN
        IF this.type \notin {"STRING", "NUMBER"} THEN Throw(ConcatMsg)
        ELSE IF other.type \notin {"STRING", "NUMBER"} THEN Throw(ConcatMsg)
        ELSE
        LET left_str  == IF this.type = "STRING" THEN this.stringValue
                         ELSE to_string(this.value.intValue.v)
            right_str == IF other.type = "STRING" THEN other.stringValue
                         ELSE to_string(other.value.intValue.v)
        IN  Return([result EXCEPT !.stringValue = StrCat(left_str, right_str),
                                  !.type = "STRING"])
    ELSE IF this.type = "NUMBER" /\ other.type = "COMPLEX" THEN
        LET r1 == WriteReal(result.value,
                            DAdd(IntToDouble(this.value.intValue),
                                 other.value.complexValue[1]))
            r2 == WriteImag(r1, other.value.complexValue[2])
        IN  Return([result EXCEPT !.value = r2, !.type = "COMPLEX"])
    ELSE IF this.type = "COMPLEX" /\ other.type = "NUMBER" THEN
        Call(this, CosyInt(other.value.intValue.v))
    ELSE IF this.type = "NUMBER" /\ other.type = "NUMBER" THEN
        Return([result EXCEPT !.value = WriteInt(result.value,
                                  IAdd(this.value.intValue, other.value.intValue)),
                              !.type = "NUMBER"])
    ELSE IF this.type = "COMPLEX" /\ other.type = "COMPLEX" THEN
        LET r1 == WriteReal(result.value,
                            DAdd(this.value.complexValue[1], other.value.complexValue[1]))
            r2 == WriteImag(r1, DAdd(this.value.complexValue[2],
                                     other.value.complexValue[2]))
        IN  Return([result EXCEPT !.value = r2, !.type = "COMPLEX"])
    ELSE
        Return(result)

(***************************************************************************)
(* operator<< : the text appended to the stream.                           *)
(***************************************************************************)
\* vectorValue.size() - 1 in size_t arithmetic, as an offset from the size:
\* i < size() - 1 holds for every int i >= 0 when size() = 0 except i = 2^64-1.
SeparatorAfter_Every(i, size) == i < size

SeparatorAfter(i, size) == IF size = 0 THEN TRUE ELSE i < size - 1

RECURSIVE operator_out(_)
RECURSIVE RenderElems(_, _)
\* for ( int i = 0; i < obj.vectorValue.size(); ++i ) { ... }  from index i on
RenderElems(vec, i) ==
    IF i < Len(vec) THEN
        operator_out(vec[i + 1])
        \o (IF SeparatorAfter(i, Len(vec)) THEN <<",", " ">> ELSE <<>>)
        \o RenderElems(vec, i + 1)
    ELSE <<>>

RenderComplex(re, im) ==
    IF im >= 0
    THEN <<"(">> \o FormatDouble(re) \o <<" ", "+", " ">> \o FormatDouble(im) \o <<"i", ")">>
    ELSE <<"(">> \o FormatDouble(re) \o <<" ", "-", " ">> \o FormatDouble(-im) \o <<"i", ")">>

operator_out(obj) ==
    CASE obj.type = "NUMBER"  -> to_string(obj.value.intValue.v)
      [] obj.type = "STRING"  -> obj.stringValue
      [] obj.type = "COMPLEX" -> RenderComplex(obj.value.complexValue[1].v,
                                               obj.value.complexValue[2].v)
      [] obj.type = "VECTOR"  -> <<"{", " ">> \o RenderElems(obj.vectorValue, 0) \o <<" ", "}">>

(***************************************************************************)
(* Operands the host constructs.                                           *)
(***************************************************************************)
\* Values used as elements of a vector.
ElemAtoms == {CosyInt(1), CosyString(<<"x">>), CosyComplex(2, 3)}

\* Values used as whole operands, besides the element values.
TopAtoms == ElemAtoms \cup {CosyInt(3), CosyInt(-12), CosyString(<<"a", "b">>),
                            CosyComplex(1, 2), CosyComplex(2, -3)}

RECURSIVE ElemsOfTotal(_)
RECURSIVE ElemOfSize(_)
\* the vectors of element values with m nodes in total
ElemsOfTotal(m) ==
    IF m = 0 THEN {<<>>}
    ELSE UNION {{<<v>> \o s : v \in ElemOfSize(k), s \in ElemsOfTotal(m - k)} : k \in 1..m}

\* the element values with exactly k nodes
ElemOfSize(k) ==
    IF k = 1 THEN ElemAtoms \cup {CosyVector(<<>>)}
    ELSE {CosyVector(s) : s \in ElemsOfTotal(k - 1)}

\* the operands with exactly k nodes
OperandOfSize(k) == IF k = 1 THEN TopAtoms \cup {CosyVector(<<>>)} ELSE ElemOfSize(k)

OperandUpTo(n) == UNION {OperandOfSize(k) : k \in 1..n}

\* pairs of operands: lhs of up to MaxNodes nodes, both together MaxNodes + 1
OperandPairs ==
    UNION {OperandOfSize(k) \X OperandUpTo(MaxNodes + 1 - k) : k \in 1..MaxNodes}

(***************************************************************************)
(* The host and the calls.                                                 *)
(***************************************************************************)
VARIABLES
    lhs,     \* the receiver / left operand object
    rhs,     \* the right operand object
    op,      \* the operation the host invoked: none, plus, into_complex, render
    pc,      \* idle, running, returned, raised, crashed
    frames,  \* activations of operator+, innermost last: [this, other]
    result,  \* the returned Cosy
    thrown,  \* what() of the exception that left the call, "" if none
    out,     \* the characters written to the stream
    calls    \* completed into_complex calls on lhs

vars == <<lhs, rhs, op, pc, frames, result, thrown, out, calls>>

Init ==
    /\ \E p \in OperandPairs : lhs = p[1] /\ rhs = p[2]
    /\ op = "none"
    /\ pc = "idle"
    /\ frames = <<>>
    /\ result = CosyDefault
    /\ thrown = ""
    /\ out = <<>>
    /\ calls = 0

\* host: lhs.into_complex() returns
IntoComplexReturns ==
    /\ \/ pc = "idle"
       \/ op = "into_complex" /\ pc \in {"returned", "raised"}
    /\ calls < MaxCalls
    /\ LET r == into_complex(lhs) IN
        /\ r.thrown = ""
        /\ lhs' = r.this
        /\ result' = r.this
        /\ thrown' = ""
        /\ pc' = "returned"
    /\ op' = "into_complex"
    /\ calls' = calls + 1
    /\ UNCHANGED <<rhs, frames, out>>

\* host: lhs.into_complex() throws
IntoComplexThrows ==
    /\ \/ pc = "idle"
       \/ op = "into_complex" /\ pc \in {"returned", "raised"}
    /\ calls < MaxCalls
    /\ LET r == into_complex(lhs) IN
        /\ r.thrown # ""
        /\ lhs' = r.this
        /\ thrown' = r.thrown
        /\ pc' = "raised"
    /\ op' = "into_complex"
    /\ calls' = calls + 1
    /\ UNCHANGED <<rhs, frames, out, result>>

\* host: os << lhs
Render ==
    /\ pc = "idle"
    /\ op' = "render"
    /\ out' = out \o operator_out(lhs)
    /\ pc' = "returned"
    /\ UNCHANGED <<lhs, rhs, frames, result, thrown, calls>>

\* host: lhs + rhs is entered
PlusCall ==
    /\ pc = "idle"
    /\ op' = "plus"
    /\ pc' = "running"
    /\ frames' = <<[this |-> lhs, other |-> rhs]>>
    /\ UNCHANGED <<lhs, rhs, result, thrown, out, calls>>

Top == frames[Len(frames)]

\* an operator+ that promotes its left operand in place before returning
PlusReturn_CoercesThis ==
    /\ op = "plus" /\ pc = "running"
    /\ LET o == operator_plus(Top.this, Top.other) IN
        /\ o.kind = "return"
        /\ result' = o.result
    /\ lhs' = IF lhs.type = "NUMBER" THEN NumberToComplex(lhs) ELSE lhs
    /\ frames' = <<>>
    /\ pc' = "returned"
    /\ UNCHANGED <<rhs, op, thrown, out, calls>>

\* the innermost activation reaches return result; every caller is at line
\* 110, assigns the returned value to its result and returns it in turn
PlusReturn ==
    /\ op = "plus" /\ pc = "running"
    /\ LET o == operator_plus(Top.this, Top.other) IN
        /\ o.kind = "return"
        /\ result' = o.result
    /\ frames' = <<>>
    /\ pc' = "returned"
    /\ UNCHANGED <<lhs, rhs, op, thrown, out, calls>>

\* the innermost activation throws; no activation catches
PlusThrow ==
    /\ op = "plus" /\ pc = "running"
    /\ LET o == operator_plus(Top.this, Top.other) IN
        /\ o.kind = "throw"
        /\ thrown' = o.msg
    /\ frames' = <<>>
    /\ pc' = "raised"
    /\ UNCHANGED <<lhs, rhs, op, result, out, calls>>

\* line 110: the innermost activation calls operator+ again
PlusRecurse ==
    /\ op = "plus" /\ pc = "running"
    /\ Len(frames) < StackLimit
    /\ LET o == operator_plus(Top.this, Top.other) IN
        /\ o.kind = "call"
        /\ frames' = Append(frames, [this |-> o.this, other |-> o.other])
    /\ UNCHANGED <<lhs, rhs, op, pc, result, thrown, out, calls>>

\* line 110 with no stack left for another activation: the process dies
PlusStackOverflow ==
    /\ op = "plus" /\ pc = "running"
    /\ Len(frames) = StackLimit
    /\ operator_plus(Top.this, Top.other).kind = "call"
    /\ pc' = "crashed"
    /\ UNCHANGED <<lhs, rhs, op, frames, result, thrown, out, calls>>

Next ==
    \/ IntoComplexReturns
    \/ IntoComplexThrows
    \/ Render
    \/ PlusCall
    \/ PlusReturn
    \/ PlusThrow
    \/ PlusRecurse
    \/ PlusStackOverflow

Spec == Init /\ [][Next]_vars

\* The same host started on operands of at most two nodes each; a call that
\* can take a step does take it (calls run to completion, nothing blocks).
SmallInit ==
    /\ \E p \in OperandUpTo(2) \X OperandUpTo(2) : lhs = p[1] /\ rhs = p[2]
    /\ op = "none"
    /\ pc = "idle"
    /\ frames = <<>>
    /\ result = CosyDefault
    /\ thrown = ""
    /\ out = <<>>
    /\ calls = 0

FairSpec == SmallInit /\ [][Next]_vars /\ WF_vars(Next)

(***************************************************************************)
(* The variant and payload of a Cosy, as the host sees it.                 *)
(***************************************************************************)
NumberV(n) == [variant |-> "Number", n |-> Cell(n), text |-> <<>>,
               re |-> Indet, im |-> Indet, elems |-> <<>>]

StringV(t) == [variant |-> "String", n |-> Indet, text |-> t,
               re |-> Indet, im |-> Indet, elems |-> <<>>]

ComplexV(r, i) == [variant |-> "Complex", n |-> Indet, text |-> <<>>,
                   re |-> Cell(r), im |-> Cell(i), elems |-> <<>>]

RECURSIVE View(_)
View(c) ==
    CASE c.type = "NUMBER"  -> [NumberV(0) EXCEPT !.n = c.value.intValue]
      [] c.type = "STRING"  -> StringV(c.stringValue)
      [] c.type = "COMPLEX" -> [ComplexV(0, 0) EXCEPT !.re = c.value.complexValue[1],
                                                      !.im = c.value.complexValue[2]]
      [] c.type = "VECTOR"  -> [variant |-> "Sequence", n |-> Indet, text |-> <<>>,
                                re |-> Indet, im |-> Indet,
                                elems |-> [k \in 1..Len(c.vectorValue) |->
                                              View(c.vectorValue[k])]]

PlusOver == op = "plus" /\ pc \notin {"idle", "running"}

\* the step is a call of lhs.into_complex()
IntoComplexStep == calls' = calls + 1

(***************************************************************************)
(* C1  combine(Complex(r, i), Number(n)) and combine(Number(n),            *)
(* Complex(r, i)) both return Complex(r + n, i).                           *)
(***************************************************************************)
C1_ComplexNumberSymmetric ==
    /\ (PlusOver /\ lhs.type = "COMPLEX" /\ rhs.type = "NUMBER") =>
          /\ pc = "returned"
          /\ View(result) = ComplexV(lhs.value.complexValue[1].v + rhs.value.intValue.v,
                                     lhs.value.complexValue[2].v)
    /\ (PlusOver /\ lhs.type = "NUMBER" /\ rhs.type = "COMPLEX") =>
          /\ pc = "returned"
          /\ View(result) = ComplexV(rhs.value.complexValue[1].v + lhs.value.intValue.v,
                                     rhs.value.complexValue[2].v)

(***************************************************************************)
(* C2  Every call that has been entered eventually returns a value or      *)
(* raises an error.                                                        *)
(***************************************************************************)
C2_EveryCallTerminates == (pc = "running") ~> (pc \in {"returned", "raised"})

(***************************************************************************)
(* C3  With a String on at least one side, combine raises the TypeError    *)
(* exactly when the other side is a Complex or a Sequence; otherwise it    *)
(* returns the String of the left text followed by the right text, a       *)
(* Number contributing its decimal text.                                   *)
(***************************************************************************)
DigitValue(ch) == (CHOOSE d \in 1..10 : DigitChars[d] = ch) - 1

RECURSIVE ParseDigits(_)
ParseDigits(t) ==
    IF Len(t) = 1 THEN DigitValue(t[1])
    ELSE 10 * ParseDigits(SubSeq(t, 1, Len(t) - 1)) + DigitValue(t[Len(t)])

\* t is the decimal text of n: optional minus, digits, no leading zero
IsDecimalOf(t, n) ==
    LET ds == IF n < 0 THEN Tail(t) ELSE t IN
    /\ Len(t) >= 1
    /\ (n < 0) => t[1] = "-"
    /\ Len(ds) >= 1
    /\ \A k \in 1..Len(ds) : \E d \in 1..10 : DigitChars[d] = ds[k]
    /\ Len(ds) > 1 => ds[1] # "0"
    /\ ParseDigits(ds) = (IF n < 0 THEN -n ELSE n)

\* t is the text the operand contributes to a concatenation
IsTextOf(t, c) ==
    IF c.type = "STRING" THEN t = c.stringValue
    ELSE IsDecimalOf(t, c.value.intValue.v)

C3_StringCombine ==
    (PlusOver /\ (lhs.type = "STRING" \/ rhs.type = "STRING")) =>
        IF lhs.type \in {"COMPLEX", "VECTOR"} \/ rhs.type \in {"COMPLEX", "VECTOR"}
        THEN pc = "raised" /\ thrown = ConcatMsg
        ELSE /\ pc = "returned"
             /\ View(result).variant = "String"
             /\ \E k \in 0..Len(result.stringValue) :
                   /\ IsTextOf(SubSeq(result.stringValue, 1, k), lhs)
                   /\ IsTextOf(SubSeq(result.stringValue, k + 1,
                                      Len(result.stringValue)), rhs)

C3_Witness ==
    /\ PlusOver /\ pc = "returned"
    /\ lhs = CosyInt(-12) /\ rhs = CosyString(<<"a", "b">>)
    /\ result.stringValue = <<"-", "1", "2", "a", "b">>

(***************************************************************************)
(* C4  A Sequence on at least one side and no String on either side:       *)
(* combine raises nothing and returns the default value Number(0).         *)
(***************************************************************************)
C4_UnhandledPairDefaults ==
    (op = "plus" /\ (lhs.type = "VECTOR" \/ rhs.type = "VECTOR")
                 /\ lhs.type # "STRING" /\ rhs.type # "STRING") =>
        /\ pc \in {"running", "returned"}
        /\ Len(frames) <= 1
        /\ thrown = ""
        /\ pc = "returned" => View(result) = NumberV(0)

C4_Witness ==
    /\ PlusOver /\ pc = "returned"
    /\ lhs.type = "COMPLEX" /\ rhs.type = "VECTOR"
    /\ View(result) = NumberV(0)

(***************************************************************************)
(* C5  into_complex on a String, or on a Sequence of fewer than two        *)
(* elements, raises the conversion error and leaves the receiver exactly   *)
(* as it was.                                                              *)
(***************************************************************************)
C5_CheckBeforeMutation ==
    [][ (IntoComplexStep /\ (\/ lhs.type = "STRING"
                             \/ lhs.type = "VECTOR" /\ Len(lhs.vectorValue) < 2)) =>
            /\ pc' = "raised"
            /\ thrown' = (IF lhs.type = "STRING" THEN StringToComplexMsg
                          ELSE VectorTooShortMsg)
            /\ lhs' = lhs ]_vars

C5_Witness ==
    /\ op = "into_complex" /\ pc = "raised"
    /\ lhs.type = "VECTOR" /\ Len(lhs.vectorValue) = 1
    /\ thrown = VectorTooShortMsg

(***************************************************************************)
(* C6  A successful into_complex on a Sequence of two or more elements     *)
(* leaves Complex(a, b), a and b the real components of the coerced        *)
(* elems[0] and elems[1]; imaginary components of the element results and  *)
(* the elements from index 2 on play no part.                              *)
(***************************************************************************)
\* the real component an element coerces to: its own value, its real part,
\* or that of its first element
RECURSIVE LeadingReal(_)
LeadingReal(e) ==
    CASE e.variant = "Number"   -> e.n.v
      [] e.variant = "Complex"  -> e.re.v
      [] e.variant = "Sequence" -> LeadingReal(e.elems[1])

\* the element can be coerced
RECURSIVE Coercible(_)
Coercible(e) ==
    CASE e.variant \in {"Number", "Complex"} -> TRUE
      [] e.variant = "String"   -> FALSE
      [] e.variant = "Sequence" -> /\ Len(e.elems) >= 2
                                   /\ Coercible(e.elems[1])
                                   /\ Coercible(e.elems[2])

C6_ExampleFlat == CosyVector(<<CosyInt(1), CosyInt(2)>>)

C6_ExampleNested ==
    CosyVector(<<CosyVector(<<CosyInt(1), CosyInt(2)>>),
                 CosyVector(<<CosyInt(3), CosyInt(4)>>)>>)

C6_SequenceToComplex ==
    [][ (IntoComplexStep /\ lhs.type = "VECTOR" /\ Len(lhs.vectorValue) >= 2) =>
            LET e == View(lhs).elems IN
            /\ (pc' = "returned") <=> (Coercible(e[1]) /\ Coercible(e[2]))
            /\ (pc' = "returned") =>
                  /\ View(lhs') = ComplexV(LeadingReal(e[1]), LeadingReal(e[2]))
                  /\ View(result') = View(lhs')
            /\ View(into_complex(C6_ExampleFlat).this) = ComplexV(1, 2)
            /\ View(into_complex(C6_ExampleNested).this) = ComplexV(1, 3) ]_vars

C6_Witness ==
    /\ op = "into_complex" /\ pc = "returned" /\ calls = 1
    /\ lhs.type = "COMPLEX"
    /\ Len(lhs.vectorValue) = 3
    /\ View(lhs.vectorValue[2]) = ComplexV(2, 3)
    /\ lhs.vectorValue[3].type = "STRING"
    /\ View(lhs) = ComplexV(1, 2)

(***************************************************************************)
(* C7  into_complex on a Number or a Complex always returns, leaves        *)
(* Complex(n, 0) resp. the same Complex(r, i), returns the receiver's new  *)
(* state, and a second application changes neither receiver nor result.    *)
(***************************************************************************)
C7_ScalarCoercionIdempotent ==
    [][ (IntoComplexStep /\ lhs.type \in {"NUMBER", "COMPLEX"}) =>
            /\ pc' = "returned"
            /\ lhs.type = "NUMBER"  => View(lhs') = ComplexV(lhs.value.intValue.v, 0)
            /\ lhs.type = "COMPLEX" => View(lhs') = View(lhs)
            /\ View(result') = View(lhs')
            /\ (calls >= 1 /\ pc = "returned") =>
                  /\ View(lhs') = View(lhs)
                  /\ View(result') = View(result) ]_vars

C7_Witness ==
    /\ op = "into_complex" /\ pc = "returned" /\ calls = 2
    /\ lhs.vectorValue = <<>>
    /\ View(lhs) = ComplexV(-12, 0)
    /\ View(result) = ComplexV(-12, 0)

(***************************************************************************)
(* C8  combine never changes either operand, whether it returns or raises. *)
(***************************************************************************)
C8_OperandsUnchanged ==
    [][ (op' = "plus") => (lhs' = lhs /\ rhs' = rhs) ]_vars

C8_Witness ==
    /\ PlusOver /\ pc = "returned"
    /\ lhs = CosyInt(3) /\ rhs = CosyComplex(1, 2)
    /\ View(result) = ComplexV(4, 2)

(***************************************************************************)
(* C9  A Sequence renders as "{ ", its elements' renderings in order with  *)
(* ", " between consecutive ones and none after the last, then " }";       *)
(* nested Sequences likewise, the empty Sequence as "{  }".                *)
(***************************************************************************)
RECURSIVE Joined(_)
Joined(texts) ==
    IF Len(texts) = 0 THEN <<>>
    ELSE IF Len(texts) = 1 THEN texts[1]
    ELSE texts[1] \o <<",", " ">> \o Joined(Tail(texts))

RECURSIVE Rendering(_)
Rendering(c) ==
    IF c.type = "VECTOR"
    THEN <<"{", " ">>
         \o Joined([k \in 1..Len(c.vectorValue) |-> Rendering(c.vectorValue[k])])
         \o <<" ", "}">>
    ELSE operator_out(c)

C9_Example ==
    CosyVector(<<CosyInt(1), CosyString(<<"x">>), CosyVector(<<CosyInt(2)>>)>>)

C9_SequenceRendering ==
    (op = "render" /\ pc = "returned" /\ lhs.type = "VECTOR") =>
        /\ out = Rendering(lhs)
        /\ lhs.vectorValue = <<>> => out = <<"{", " ", " ", "}">>
        /\ operator_out(C9_Example) =
              <<"{", " ", "1", ",", " ", "x", ",", " ", "{", " ", "2", " ", "}", " ", "}">>

C9_Witness ==
    /\ op = "render" /\ pc = "returned"
    /\ lhs = CosyVector(<<CosyInt(1), CosyString(<<"x">>), CosyVector(<<CosyInt(1)>>)>>)
    /\ out = <<"{", " ", "1", ",", " ", "x", ",", " ", "{", " ", "1", " ", "}", " ", "}">>

(***************************************************************************)
(* C10  Whenever into_complex raises, the receiver has the variant and     *)
(* payload it had before the call.                                         *)
(***************************************************************************)
C10_AllOrNothing ==
    [][ (IntoComplexStep /\ pc' = "raised") => View(lhs') = View(lhs) ]_vars

\* C10 as amended: a failure of the receiver's own check leaves the receiver
\* unchanged; a failure while coercing elems[0] or elems[1] of a longer
\* Sequence is raised after the receiver has been retagged Complex, the
\* element vector keeping its length and its elements from index 2 on.
C10_FailureLeavesRetagged ==
    [][ (IntoComplexStep /\ pc' = "raised") =>
            IF lhs.type = "VECTOR" /\ Len(lhs.vectorValue) >= 2
            THEN /\ lhs'.type = "COMPLEX"
                 /\ View(lhs') # View(lhs)
                 /\ Len(lhs'.vectorValue) = Len(lhs.vectorValue)
                 /\ \A k \in 3..Len(lhs.vectorValue) :
                       lhs'.vectorValue[k] = lhs.vectorValue[k]
            ELSE lhs' = lhs ]_vars

C10_Witness ==
    /\ op = "into_complex" /\ pc = "raised" /\ calls = 1
    /\ lhs.type = "COMPLEX"
    /\ Len(lhs.vectorValue) = 2
    /\ View(lhs.vectorValue[1]) = ComplexV(1, 0)
    /\ lhs.vectorValue[2] = CosyString(<<"x">>)

====
